---- MODULE Spec2Model ----
(***************************************************************************)
(* Atomic chess (ChessVar.py).  The state is the ChessVar object: _board,  *)
(* _turn and _game_state.  make_move is the only operation that changes    *)
(* it.  Cells are the two-character strings of the source, written as      *)
(* pairs of characters so that the substring tests ("P" in piece) are      *)
(* computed as the code computes them.  board[row][col] follows the        *)
(* source: the row index is the letter, the column index the digit.        *)
(***************************************************************************)
EXTENDS Integers, Sequences, FiniteSets, TLC

\* ---------------------------------------------------------------- bounds
\* Calls that change the board explored from each starting position.
MaxMoves == 2

\* ---------------------------------------------------------------- pieces
WR == <<"W", "R">>
WN == <<"W", "N">>
WI == <<"W", "I">>
WQ == <<"W", "Q">>
WK == <<"W", "K">>
WP == <<"W", "P">>
BR == <<"B", "R">>
BN == <<"B", "N">>
BI == <<"B", "I">>
BQ == <<"B", "Q">>
BK == <<"B", "K">>
BP == <<"B", "P">>
Empty == <<"0", "0">>

Idx == 0 .. 7

\* A Python list literal, re-indexed from 0.
Row(l) == [c \in Idx |-> l[c + 1]]

\* ch in s, for a one-character ch and a string s.
In(ch, s) == \E i \in 1 .. Len(s) : s[i] = ch

letters == <<"a", "b", "c", "d", "e", "f", "g", "h">>

digits == <<"0", "1", "2", "3", "4", "5", "6", "7", "8", "9">>

\* s.index(ch), for ch in s: the position of its first occurrence.
index(s, ch) ==
  (CHOOSE i \in 1 .. Len(s) : s[i] = ch /\ \A j \in 1 .. (i - 1) : s[j] # ch) - 1

\* int(ch) of one character: its value, or ValueError (-1 here, tested by
\* the caller before use).
IsDigit(ch) == In(ch, digits)

int(ch) == index(digits, ch)

abs(x) == IF x < 0 THEN 0 - x ELSE x

\* range(lo, hi)
range(lo, hi) == {i \in lo .. (hi - 1) : TRUE}

\* The board of __init__.
InitBoard ==
  Row(<< Row(<<WR, WP, Empty, Empty, Empty, Empty, BP, BR>>),
         Row(<<WN, WP, Empty, Empty, Empty, Empty, BP, BN>>),
         Row(<<WI, WP, Empty, Empty, Empty, Empty, BP, BI>>),
         Row(<<WQ, WP, Empty, Empty, Empty, Empty, BP, BQ>>),
         Row(<<WK, WP, Empty, Empty, Empty, Empty, BP, BK>>),
         Row(<<WI, WP, Empty, Empty, Empty, Empty, BP, BI>>),
         Row(<<WN, WP, Empty, Empty, Empty, Empty, BP, BN>>),
         Row(<<WR, WP, Empty, Empty, Empty, Empty, BP, BR>>) >>)

\* ------------------------------------------------------- piece predicates
\* The verdicts are Python's: "True", "False", or "None" when the function
\* falls off its end.  Only "True" is truthy.

\* validate_pawn with the occupancy test of the diagonal step dropped.
validate_pawn_any_diagonal(b, t, start_row, start_col, landing_space, end_row, end_col) ==
  IF start_col = 1 /\ start_row = end_row /\ t = "WHITE"
  THEN (IF (start_col + 1 = end_col \/ start_col + 2 = end_col) /\ landing_space = Empty
        THEN "True" ELSE "None")
  ELSE IF start_col = 6 /\ start_row = end_row /\ t = "BLACK"
  THEN (IF (start_col - 1 = end_col \/ start_col - 2 = end_col) /\ landing_space = Empty
        THEN "True" ELSE "None")
  ELSE IF start_row = end_row /\ t = "WHITE"
  THEN (IF start_col + 1 = end_col /\ landing_space = Empty THEN "True" ELSE "None")
  ELSE IF start_row = end_row /\ t = "BLACK"
  THEN (IF start_col - 1 = end_col /\ landing_space = Empty THEN "True" ELSE "None")
  ELSE IF abs(start_row - end_row) = 1
  THEN (IF start_col + 1 = end_col /\ t = "WHITE" THEN "True"
        ELSE IF start_col - 1 = end_col /\ t = "BLACK" THEN "True"
        ELSE "None")
  ELSE "False"

validate_pawn(b, t, start_row, start_col, landing_space, end_row, end_col) ==
  IF start_col = 1 /\ start_row = end_row /\ t = "WHITE"
  THEN (IF (start_col + 1 = end_col \/ start_col + 2 = end_col) /\ landing_space = Empty
        THEN "True" ELSE "None")
  ELSE IF start_col = 6 /\ start_row = end_row /\ t = "BLACK"
  THEN (IF (start_col - 1 = end_col \/ start_col - 2 = end_col) /\ landing_space = Empty
        THEN "True" ELSE "None")
  ELSE IF start_row = end_row /\ t = "WHITE"
  THEN (IF start_col + 1 = end_col /\ landing_space = Empty THEN "True" ELSE "None")
  ELSE IF start_row = end_row /\ t = "BLACK"
  THEN (IF start_col - 1 = end_col /\ landing_space = Empty THEN "True" ELSE "None")
  ELSE IF abs(start_row - end_row) = 1
  THEN (IF start_col + 1 = end_col /\ t = "WHITE" /\ landing_space # Empty THEN "True"
        ELSE IF start_col - 1 = end_col /\ t = "BLACK" /\ landing_space # Empty THEN "True"
        ELSE "None")
  ELSE "False"

validate_rook(b, start_row, start_col, end_row, end_col) ==
  IF start_row = end_row
  THEN (IF \E i \in range(start_col + 1, end_col) : b[start_row][i] # Empty
        THEN "False" ELSE "True")
  ELSE IF start_col = end_col
  THEN (IF \E i \in range(start_row + 1, end_row) : b[i][start_col] # Empty
        THEN "False" ELSE "True")
  ELSE "False"

\* validate_knight with the second offset test written as the first.
validate_knight_wrong(start_row, start_col, end_row, end_col) ==
  IF abs(start_row - end_row) = 1
  THEN (IF abs(start_col - end_col) = 2 THEN "True" ELSE "None")
  ELSE IF abs(start_row - end_row) = 2
  THEN (IF abs(start_col - end_col) = 2 THEN "True" ELSE "None")
  ELSE "False"

validate_knight(start_row, start_col, end_row, end_col) ==
  IF abs(start_row - end_row) = 1
  THEN (IF abs(start_col - end_col) = 2 THEN "True" ELSE "None")
  ELSE IF abs(start_row - end_row) = 2
  THEN (IF abs(start_col - end_col) = 1 THEN "True" ELSE "None")
  ELSE "False"

\* The four direction loops shared, verbatim, by validate_bishop and the
\* diagonal branch of validate_queen.
DiagonalBlocked(b, start_row, start_col, end_row, end_col) ==
  LET dist == abs(start_row - end_row) IN
  \/ /\ end_row > start_row /\ end_col > start_col
     /\ \E i \in range(1, dist) : b[start_row + i][start_col + i] # Empty
  \/ /\ end_row > start_row /\ end_col < start_col
     /\ \E i \in range(1, dist) : b[start_row + i][start_col - i] # Empty
  \/ /\ end_row < start_row /\ end_col > start_col
     /\ \E i \in range(1, dist) : b[start_row - i][start_col + i] # Empty
  \/ /\ end_row < start_row /\ end_col < start_col
     /\ \E i \in range(1, dist) : b[start_row - i][start_col - i] # Empty

\* validate_bishop with the loop of lines 263-266 (row up, column down)
\* left out.
validate_bishop_one_loop_short(b, start_row, start_col, end_row, end_col) ==
  LET dist == abs(start_row - end_row) IN
  IF abs(start_row - end_row) = abs(start_col - end_col)
  THEN (IF \/ /\ end_row > start_row /\ end_col > start_col
              /\ \E i \in range(1, dist) : b[start_row + i][start_col + i] # Empty
           \/ /\ end_row < start_row /\ end_col > start_col
              /\ \E i \in range(1, dist) : b[start_row - i][start_col + i] # Empty
           \/ /\ end_row < start_row /\ end_col < start_col
              /\ \E i \in range(1, dist) : b[start_row - i][start_col - i] # Empty
        THEN "False" ELSE "True")
  ELSE "False"

validate_bishop(b, start_row, start_col, end_row, end_col) ==
  IF abs(start_row - end_row) = abs(start_col - end_col)
  THEN (IF DiagonalBlocked(b, start_row, start_col, end_row, end_col)
        THEN "False" ELSE "True")
  ELSE "False"

\* validate_queen with the straight paths scanned from the lower index to
\* the higher one, whichever way the move goes.
validate_queen_both_ways(b, start_row, start_col, end_row, end_col) ==
  IF abs(start_row - end_row) = abs(start_col - end_col)
  THEN (IF DiagonalBlocked(b, start_row, start_col, end_row, end_col)
        THEN "False" ELSE "True")
  ELSE IF start_row = end_row
  THEN (IF \/ \E i \in range(start_col + 1, end_col) : b[start_row][i] # Empty
           \/ \E i \in range(end_col + 1, start_col) : b[start_row][i] # Empty
        THEN "False" ELSE "True")
  ELSE IF start_col = end_col
  THEN (IF \/ \E i \in range(start_row + 1, end_row) : b[i][start_col] # Empty
           \/ \E i \in range(end_row + 1, start_row) : b[i][start_col] # Empty
        THEN "False" ELSE "True")
  ELSE "False"

validate_queen(b, start_row, start_col, end_row, end_col) ==
  IF abs(start_row - end_row) = abs(start_col - end_col)
  THEN (IF DiagonalBlocked(b, start_row, start_col, end_row, end_col)
        THEN "False" ELSE "True")
  ELSE IF start_row = end_row
  THEN (IF \E i \in range(start_col + 1, end_col) : b[start_row][i] # Empty
        THEN "False" ELSE "True")
  ELSE IF start_col = end_col
  THEN (IF \E i \in range(start_row + 1, end_row) : b[i][start_col] # Empty
        THEN "False" ELSE "True")
  ELSE "False"

\* validate_king without the test that the landing space is empty.
validate_king_onto_any(start_row, start_col, landing_space, end_row, end_col) ==
  IF abs(start_row - end_row) = 1
  THEN (IF start_col = end_col \/ abs(start_col - end_col) = 1
        THEN "True" ELSE "None")
  ELSE IF abs(start_col - end_col) = 1
  THEN (IF start_row = end_row \/ abs(start_row - end_row) = 1
        THEN "True" ELSE "None")
  ELSE "False"

validate_king(start_row, start_col, landing_space, end_row, end_col) ==
  IF abs(start_row - end_row) = 1
  THEN (IF (start_col = end_col \/ abs(start_col - end_col) = 1) /\ landing_space = Empty
        THEN "True" ELSE "None")
  ELSE IF abs(start_col - end_col) = 1
  THEN (IF (start_row = end_row \/ abs(start_row - end_row) = 1) /\ landing_space = Empty
        THEN "True" ELSE "None")
  ELSE "False"

\* The dispatch of validate_move on the kind of the moving piece (lines 132-148).
PieceVerdict(b, t, moving_piece, start_row, start_col, landing_space, end_row, end_col) ==
  IF In("P", moving_piece)
  THEN validate_pawn(b, t, start_row, start_col, landing_space, end_row, end_col)
  ELSE IF In("R", moving_piece)
  THEN validate_rook(b, start_row, start_col, end_row, end_col)
  ELSE IF In("N", moving_piece)
  THEN validate_knight(start_row, start_col, end_row, end_col)
  ELSE IF In("I", moving_piece)
  THEN validate_bishop(b, start_row, start_col, end_row, end_col)
  ELSE IF In("Q", moving_piece)
  THEN validate_queen(b, start_row, start_col, end_row, end_col)
  ELSE IF In("K", moving_piece)
  THEN validate_king(start_row, start_col, landing_space, end_row, end_col)
  ELSE "None"

\* validate_move without the two tests of whose turn it is (lines 120, 125).
validate_move_any_turn(b, t, moving_piece, start_row, start_col, landing_space, end_row, end_col) ==
  IF moving_piece = Empty THEN "False"
  ELSE IF start_row = end_row /\ start_col = end_col THEN "False"
  ELSE IF t = "WHITE" /\ In("W", landing_space) THEN "False"
  ELSE IF t = "BLACK" /\ In("B", landing_space) THEN "False"
  ELSE PieceVerdict(b, t, moving_piece, start_row, start_col, landing_space,
                    end_row, end_col)

\* validate_move without the two tests of a friendly landing space (lines
\* 122, 127).
validate_move_friendly_fire(b, t, moving_piece, start_row, start_col, landing_space, end_row, end_col) ==
  IF moving_piece = Empty THEN "False"
  ELSE IF start_row = end_row /\ start_col = end_col THEN "False"
  ELSE IF t = "WHITE" /\ In("B", moving_piece) THEN "False"
  ELSE IF t = "BLACK" /\ In("W", moving_piece) THEN "False"
  ELSE PieceVerdict(b, t, moving_piece, start_row, start_col, landing_space,
                    end_row, end_col)

\* validate_move answering True where lines 116 and 118 answer False.
validate_move_origin_unchecked(b, t, moving_piece, start_row, start_col, landing_space, end_row, end_col) ==
  IF moving_piece = Empty THEN "True"
  ELSE IF start_row = end_row /\ start_col = end_col THEN "True"
  ELSE IF t = "WHITE" /\ In("B", moving_piece) THEN "False"
  ELSE IF t = "WHITE" /\ In("W", landing_space) THEN "False"
  ELSE IF t = "BLACK" /\ In("W", moving_piece) THEN "False"
  ELSE IF t = "BLACK" /\ In("B", landing_space) THEN "False"
  ELSE PieceVerdict(b, t, moving_piece, start_row, start_col, landing_space,
                    end_row, end_col)

validate_move(b, t, moving_piece, start_row, start_col, landing_space, end_row, end_col) ==
  IF moving_piece = Empty THEN "False"
  ELSE IF start_row = end_row /\ start_col = end_col THEN "False"
  ELSE IF t = "WHITE" /\ In("B", moving_piece) THEN "False"
  ELSE IF t = "WHITE" /\ In("W", landing_space) THEN "False"
  ELSE IF t = "BLACK" /\ In("W", moving_piece) THEN "False"
  ELSE IF t = "BLACK" /\ In("B", landing_space) THEN "False"
  ELSE PieceVerdict(b, t, moving_piece, start_row, start_col, landing_space,
                    end_row, end_col)

\* ------------------------------------------------------------- explosion
\* board[r][c] = '00'
Clear(b, r, c) == [b EXCEPT ![r][c] = Empty]

\* ClearUnlessPawn without the pawn test.
ClearAlways(b, inside, r, c) ==
  IF inside THEN Clear(b, r, c) ELSE b

\* ClearUnlessPawn without the tests end_col > 0 and end_row > 0: the index
\* -1 is the last element of a Python list.
ClearWrapping(b, inside, r, c) ==
  LET rr == (r + 8) % 8
      cc == (c + 8) % 8
  IN IF r <= 7 /\ c <= 7 /\ ~In("P", b[rr][cc]) THEN Clear(b, rr, cc) ELSE b

\* if <inside> and "P" not in board[r][c]: board[r][c] = '00'
ClearUnlessPawn(b, inside, r, c) ==
  IF inside /\ ~In("P", b[r][c]) THEN Clear(b, r, c) ELSE b

\* The nine assignments of one pass of atomic_landing, in source order.
Explode(b, end_row, end_col) ==
  LET b0 == Clear(b, end_row, end_col)
      b1 == ClearUnlessPawn(b0, end_col > 0, end_row, end_col - 1)
      b2 == ClearUnlessPawn(b1, end_col < 7, end_row, end_col + 1)
      b3 == ClearUnlessPawn(b2, end_row > 0, end_row - 1, end_col)
      b4 == ClearUnlessPawn(b3, end_col > 0 /\ end_row > 0, end_row - 1, end_col - 1)
      b5 == ClearUnlessPawn(b4, end_col < 7 /\ end_row > 0, end_row - 1, end_col + 1)
      b6 == ClearUnlessPawn(b5, end_row < 7, end_row + 1, end_col)
      b7 == ClearUnlessPawn(b6, end_col > 0 /\ end_row < 7, end_row + 1, end_col - 1)
      b8 == ClearUnlessPawn(b7, end_col < 7 /\ end_row < 7, end_row + 1, end_col + 1)
  IN b8

\* check_king with the two winners exchanged.
check_king_swapped(chessboard, g) ==
  LET black_present == \E r \in Idx : \E c \in Idx : chessboard[r][c] = BK
      white_present == \E r \in Idx : \E c \in Idx : chessboard[r][c] = WK
  IN IF ~white_present /\ ~black_present THEN [ret |-> "False", game_state |-> g]
     ELSE IF black_present /\ white_present THEN [ret |-> "True", game_state |-> g]
     ELSE IF black_present THEN [ret |-> "True", game_state |-> "WHITE_WON"]
     ELSE [ret |-> "True", game_state |-> "BLACK_WON"]

\* check_king without its first test: a board with no king falls through to
\* the last branch.
check_king_no_guard(chessboard, g) ==
  LET black_present == \E r \in Idx : \E c \in Idx : chessboard[r][c] = BK
      white_present == \E r \in Idx : \E c \in Idx : chessboard[r][c] = WK
  IN IF black_present /\ white_present THEN [ret |-> "True", game_state |-> g]
     ELSE IF black_present THEN [ret |-> "True", game_state |-> "BLACK_WON"]
     ELSE [ret |-> IF white_present THEN "True" ELSE "False",
           game_state |-> "WHITE_WON"]

\* check_king: the verdict and the _game_state it leaves.
check_king(chessboard, g) ==
  LET black_present == \E r \in Idx : \E c \in Idx : chessboard[r][c] = BK
      white_present == \E r \in Idx : \E c \in Idx : chessboard[r][c] = WK
  IN IF ~white_present /\ ~black_present THEN [ret |-> "False", game_state |-> g]
     ELSE IF black_present /\ white_present THEN [ret |-> "True", game_state |-> g]
     ELSE IF black_present THEN [ret |-> "True", game_state |-> "BLACK_WON"]
     ELSE [ret |-> "True", game_state |-> "WHITE_WON"]

\* test_board = self._board binds a second name to the same list object:
\* what the trial pass writes to test_board is written to the live board.
test_board(b, end_row, end_col) == Explode(b, end_row, end_col)

\* atomic_landing with check_king's verdicts used and its assignments to
\* _game_state lost.
atomic_landing_state_kept(b, g, end_row, end_col) ==
  LET trial == test_board(b, end_row, end_col)
      test_value == check_king(trial, g)
  IN IF test_value.ret = "False"
     THEN [ret |-> "False", board |-> trial, game_state |-> g]
     ELSE [ret |-> "True", board |-> Explode(trial, end_row, end_col),
           game_state |-> g]

\* atomic_landing: the verdict, the live board and the _game_state it leaves.
atomic_landing(b, g, end_row, end_col) ==
  LET trial == test_board(b, end_row, end_col)
      test_value == check_king(trial, g)
  IN IF test_value.ret = "False"
     THEN [ret |-> "False", board |-> trial, game_state |-> test_value.game_state]
     ELSE LET live == Explode(trial, end_row, end_col)
              final == check_king(live, test_value.game_state)
          IN [ret |-> "True", board |-> live, game_state |-> final.game_state]

\* -------------------------------------------------------------- make_move
\* What one call leaves behind: the value returned (or the exception
\* raised), the source line it left from, and the object's three fields.
Result(r, l, b, t, g) ==
  [ret |-> r, line |-> l, board |-> b, turn |-> t, game_state |-> g]

\* Lines 92-95 with both branches assigning "BLACK".
FlipStuck(t) == "BLACK"

\* Lines 92-95.
Flip(t) == IF t = "WHITE" THEN "BLACK" ELSE "WHITE"

\* Apply without line 89 after a plain move: the origin keeps its piece.
Apply_origin_kept(b, t, g, start_row, start_col, end_row, end_col) ==
  LET moving_piece == b[start_row][start_col]
      landing_space == b[end_row][end_col]
      validity == validate_move(b, t, moving_piece, start_row, start_col,
                                landing_space, end_row, end_col)
  IN IF validity = "True"
     THEN IF landing_space # Empty
          THEN LET atomic == atomic_landing(b, g, end_row, end_col)
               IN IF atomic.ret = "False"
                  THEN Result("False", 85, atomic.board, t, atomic.game_state)
                  ELSE Result("True", 97, Clear(atomic.board, start_row, start_col),
                              Flip(t), atomic.game_state)
          ELSE Result("True", 97, [b EXCEPT ![end_row][end_col] = moving_piece],
                      Flip(t), g)
     ELSE Result("False", 99, b, t, g)

\* Apply with lines 88-89 run before the validator is asked: a rejected move
\* onto an empty square is left on the board.
Apply_written_first(b, t, g, start_row, start_col, end_row, end_col) ==
  LET moving_piece == b[start_row][start_col]
      landing_space == b[end_row][end_col]
      validity == validate_move(b, t, moving_piece, start_row, start_col,
                                landing_space, end_row, end_col)
      moved == Clear([b EXCEPT ![end_row][end_col] = moving_piece],
                     start_row, start_col)
  IN IF validity = "True"
     THEN IF landing_space # Empty
          THEN LET atomic == atomic_landing(b, g, end_row, end_col)
               IN IF atomic.ret = "False"
                  THEN Result("False", 85, atomic.board, t, atomic.game_state)
                  ELSE Result("True", 97, Clear(atomic.board, start_row, start_col),
                              Flip(t), atomic.game_state)
          ELSE Result("True", 97, moved, Flip(t), g)
     ELSE Result("False", 99, IF landing_space = Empty THEN moved ELSE b, t, g)

\* Apply with the two indices of line 89 exchanged after a plain move: the
\* origin keeps its piece and another square is emptied.
Apply_clears_transposed(b, t, g, start_row, start_col, end_row, end_col) ==
  LET moving_piece == b[start_row][start_col]
      landing_space == b[end_row][end_col]
      validity == validate_move(b, t, moving_piece, start_row, start_col,
                                landing_space, end_row, end_col)
  IN IF validity = "True"
     THEN IF landing_space # Empty
          THEN LET atomic == atomic_landing(b, g, end_row, end_col)
               IN IF atomic.ret = "False"
                  THEN Result("False", 85, atomic.board, t, atomic.game_state)
                  ELSE Result("True", 97, Clear(atomic.board, start_row, start_col),
                              Flip(t), atomic.game_state)
          ELSE Result("True", 97,
                      Clear([b EXCEPT ![end_row][end_col] = moving_piece],
                            start_col, start_row),
                      Flip(t), g)
     ELSE Result("False", 99, b, t, g)

\* Lines 79-99, once both squares are parsed.
Apply(b, t, g, start_row, start_col, end_row, end_col) ==
  LET moving_piece == b[start_row][start_col]
      landing_space == b[end_row][end_col]
      validity == validate_move(b, t, moving_piece, start_row, start_col,
                                landing_space, end_row, end_col)
  IN IF validity = "True"
     THEN IF landing_space # Empty
          THEN LET atomic == atomic_landing(b, g, end_row, end_col)
               IN IF atomic.ret = "False"
                  THEN Result("False", 85, atomic.board, t, atomic.game_state)
                  ELSE Result("True", 97, Clear(atomic.board, start_row, start_col),
                              Flip(t), atomic.game_state)
          ELSE Result("True", 97,
                      Clear([b EXCEPT ![end_row][end_col] = moving_piece],
                            start_row, start_col),
                      Flip(t), g)
     ELSE Result("False", 99, b, t, g)

\* Lines 56-99: the tokens are parsed in the order the code reads them.
Parse(b, t, g, start_pos, end_pos) ==
  IF Len(start_pos) < 1 THEN Result("IndexError", 58, b, t, g)
  ELSE IF ~In(start_pos[1], letters) THEN Result("False", 59, b, t, g)
  ELSE IF Len(end_pos) < 1 THEN Result("IndexError", 58, b, t, g)
  ELSE IF ~In(end_pos[1], letters) THEN Result("False", 59, b, t, g)
  ELSE IF Len(start_pos) < 2 THEN Result("IndexError", 63, b, t, g)
  ELSE IF ~IsDigit(start_pos[2]) THEN Result("ValueError", 63, b, t, g)
  ELSE
    LET start_row == index(letters, start_pos[1])
        start_col == int(start_pos[2]) - 1
    IN IF 0 > start_row \/ 0 > start_col THEN Result("False", 65, b, t, g)
       ELSE IF 7 < start_row \/ 7 < start_col THEN Result("False", 67, b, t, g)
       ELSE IF Len(end_pos) < 2 THEN Result("IndexError", 72, b, t, g)
       ELSE IF ~IsDigit(end_pos[2]) THEN Result("ValueError", 72, b, t, g)
       ELSE
         LET end_row == index(letters, end_pos[1])
             end_col == int(end_pos[2]) - 1
         IN IF 0 > end_row \/ 0 > end_col THEN Result("False", 74, b, t, g)
            ELSE IF 7 < end_row \/ 7 < end_col THEN Result("False", 76, b, t, g)
            ELSE Apply(b, t, g, start_row, start_col, end_row, end_col)

\* make_move without the test of line 53.
make_move_unguarded(b, t, g, start_pos, end_pos) ==
  Parse(b, t, g, start_pos, end_pos)

make_move(b, t, g, start_pos, end_pos) ==
  IF g # "UNFINISHED" THEN Result("False", 54, b, t, g)
  ELSE Parse(b, t, g, start_pos, end_pos)

\* ------------------------------------------------------------------ state
\* board, turn, game_state: the fields of the ChessVar object.
\* The rest records the last call:
\*   ret, line   what it returned (or raised) and the line it left from;
\*   malformed   whether one of its tokens was not one of a1..h8;
\*   src, dst    (start_row, start_col) and (end_row, end_col) when it passed
\*               validate_move (line 81), NoSquare otherwise;
\*   capture     whether it entered atomic_landing (line 83);
\*   idle        whether it left the three fields as they were;
\*   ends        for tokens among a1..h8, what the call found on its two
\*               squares: the colour letter of the origin's cell, that of the
\*               destination's cell ("0" for an empty cell), and whether the
\*               two squares are the same; NoSquare otherwise;
\* mover is the colour letter of the piece moved by the last accepted call.
\* opening is the game record played before the exploration starts, nmoves
\* the calls that changed the board since.
VARIABLES board, turn, game_state, ret, line, malformed, src, dst, capture,
          mover, idle, ends, opening, nmoves

vars ==
  <<board, turn, game_state, ret, line, malformed, src, dst, capture,
    mover, idle, ends, opening, nmoves>>

\* The position tokens a caller passes: the 64 squares and malformed ones.
Square(r, c) == <<letters[r + 1], digits[c + 2]>>

Squares == {Square(r, c) : r \in Idx, c \in Idx}

Malformed ==
  { <<>>, <<"a">>, <<"i", "1">>, <<"a", "x">>, <<"a", "1", "0">>,
    <<"a", "0">>, <<"a", "9">> }

Tokens == Squares \cup Malformed

NoSquare == <<>>

\* (row, col) as make_move computes them from a token (lines 62-63, 71-72).
RowCol(pos) == <<index(letters, pos[1]), int(pos[2]) - 1>>

\* The object as __init__ leaves it, no call made yet.
Fresh ==
  [board |-> InitBoard, turn |-> "WHITE", game_state |-> "UNFINISHED",
   ret |-> "none", line |-> 0, malformed |-> FALSE, src |-> NoSquare,
   dst |-> NoSquare, capture |-> FALSE, mover |-> "none", idle |-> FALSE,
   ends |-> NoSquare]

\* The object s once a call with tokens start_pos, end_pos has left r.
Record(s, r, start_pos, end_pos) ==
  LET valid == r.line = 85 \/ r.line = 97
      from == RowCol(start_pos)
      to == RowCol(end_pos)
  IN [board |-> r.board, turn |-> r.turn, game_state |-> r.game_state,
      ret |-> r.ret, line |-> r.line,
      malformed |-> (start_pos \in Malformed \/ end_pos \in Malformed),
      src |-> IF valid THEN from ELSE NoSquare,
      dst |-> IF valid THEN to ELSE NoSquare,
      capture |-> (valid /\ s.board[to[1]][to[2]] # Empty),
      mover |-> IF r.ret = "True" THEN s.board[from[1]][from[2]][1] ELSE s.mover,
      idle |-> (r.board = s.board /\ r.turn = s.turn /\ r.game_state = s.game_state),
      ends |-> IF start_pos \in Squares /\ end_pos \in Squares
               THEN <<s.board[from[1]][from[2]][1], s.board[to[1]][to[2]][1], from = to>>
               ELSE NoSquare]

\* The object s after the call make_move(start_pos, end_pos).
Call(s, start_pos, end_pos) ==
  CHOOSE n \in {Record(s, r, start_pos, end_pos) :
                  r \in {make_move(s.board, s.turn, s.game_state, start_pos, end_pos)}} :
    TRUE

\* The object after the calls of a game record, played from __init__.
RECURSIVE Replay(_)
Replay(calls) ==
  IF calls = <<>> THEN Fresh
  ELSE CHOOSE n \in {Call(s, calls[Len(calls)][1], calls[Len(calls)][2]) :
                       s \in {Replay(SubSeq(calls, 1, Len(calls) - 1))}} :
         TRUE

\* A call written as in chess notation: Mv("e", 2, "e", 4) is ('e2', 'e4').
Mv(l1, d1, l2, d2) == << <<l1, digits[d1 + 1]>>, <<l2, digits[d2 + 1]>> >>

\* A recorded game: the kings on d4 and c6 beside the pawns e4 and d5, a
\* white knight on b5 attacked by the pawn a6.  Black is to move.
Melee ==
  << Mv("e", 2, "e", 4), Mv("d", 7, "d", 5), Mv("e", 1, "e", 2), Mv("e", 8, "d", 7),
     Mv("e", 2, "d", 3), Mv("d", 7, "c", 6), Mv("d", 3, "d", 4), Mv("a", 7, "a", 6),
     Mv("b", 1, "c", 3), Mv("h", 7, "h", 6), Mv("c", 3, "b", 5) >>

\* The same with White to move: Black has pushed the h-pawn, or has stepped
\* the king away from d5.
MeleeWhite == Append(Melee, Mv("h", 6, "h", 5))

MeleeKingAway == Append(Melee, Mv("c", 6, "b", 6))

\* Two finished games: the black queen takes on d1 next to the white king;
\* the white knight takes on c7 next to the black king.
BlackWins == << Mv("a", 2, "a", 3), Mv("d", 8, "d", 1) >>

WhiteWins == Append(MeleeWhite, Mv("b", 5, "c", 7))

\* The games explored: from __init__, and on from the recorded games.
Openings == { <<>>, Melee, MeleeWhite, MeleeKingAway, BlackWins, WhiteWins }

\* The exploration after a recorded game is one move shorter than the one
\* from __init__.
Depth(o) == IF o = <<>> THEN MaxMoves ELSE MaxMoves - 1

\* The object after an opening; the record of the last call starts empty.
Init ==
  \E o \in Openings :
    \E s \in {Replay(o)} :
      /\ board = s.board
      /\ turn = s.turn
      /\ game_state = s.game_state
      /\ mover = s.mover
      /\ ret = "none"
      /\ line = 0
      /\ malformed = FALSE
      /\ src = NoSquare
      /\ dst = NoSquare
      /\ capture = FALSE
      /\ idle = FALSE
      /\ ends = NoSquare
      /\ opening = o
      /\ nmoves = 0

Cur ==
  [board |-> board, turn |-> turn, game_state |-> game_state, ret |-> ret,
   line |-> line, malformed |-> malformed, src |-> src, dst |-> dst,
   capture |-> capture, mover |-> mover, idle |-> idle, ends |-> ends]

\* One call make_move(start_pos, end_pos).  A call that left the object as
\* it was is not followed further: the object is in the state it was in,
\* which is explored from where it was first reached.
MakeMove ==
  /\ nmoves < Depth(opening)
  /\ ~idle
  /\ \E start_pos \in Tokens, end_pos \in Tokens :
       \E n \in {Call(Cur, start_pos, end_pos)} :
         /\ board' = n.board
         /\ turn' = n.turn
         /\ game_state' = n.game_state
         /\ ret' = n.ret
         /\ line' = n.line
         /\ malformed' = n.malformed
         /\ src' = n.src
         /\ dst' = n.dst
         /\ capture' = n.capture
         /\ mover' = n.mover
         /\ idle' = n.idle
         /\ ends' = n.ends
         /\ opening' = opening
         /\ nmoves' = IF n.board # board THEN nmoves + 1 ELSE nmoves

Next == MakeMove

Spec == Init /\ [][Next]_vars

\* ------------------------------------------------ a capture, step by step
\* The same calls, with atomic_landing taken one step at a time.  While a
\* call is inside atomic_landing, line is the line it has just executed:
\*   389  the trial pass (lines 370-389) has written test_board;
\*   390  check_king(test_board) has returned a true value;
\*   412  the pass over self._board (lines 394-412) is done;
\*   413  check_king(self._board) has returned.
InLanding == {389, 390, 412, 413}

\* make_move up to line 83 and, for a capture, the trial pass; a call that
\* does not enter atomic_landing runs to its return as in MakeMove.
StartCall ==
  /\ nmoves < Depth(opening)
  /\ ~idle
  /\ line \notin InLanding
  /\ \E start_pos \in Tokens, end_pos \in Tokens :
       \E n \in {Call(Cur, start_pos, end_pos)} :
         /\ malformed' = n.malformed
         /\ src' = n.src
         /\ dst' = n.dst
         /\ capture' = n.capture
         /\ ends' = n.ends
         /\ opening' = opening
         /\ IF n.capture
            THEN /\ board' = test_board(board, n.dst[1], n.dst[2])
                 /\ line' = 389
                 /\ ret' = "none"
                 /\ idle' = FALSE
                 /\ nmoves' = nmoves + 1
                 /\ UNCHANGED <<turn, game_state, mover>>
            ELSE /\ board' = n.board
                 /\ turn' = n.turn
                 /\ game_state' = n.game_state
                 /\ ret' = n.ret
                 /\ line' = n.line
                 /\ mover' = n.mover
                 /\ idle' = n.idle
                 /\ nmoves' = IF n.board # board THEN nmoves + 1 ELSE nmoves

\* Lines 390-392: check_king on test_board, which is the live board; the
\* call returns False from line 85 when no king is left.
TrialKing ==
  /\ line = 389
  /\ \E test_value \in {check_king(board, game_state)} :
       /\ game_state' = test_value.game_state
       /\ IF test_value.ret = "False"
          THEN ret' = "False" /\ line' = 85
          ELSE ret' = ret /\ line' = 390
  /\ UNCHANGED <<board, turn, malformed, src, dst, capture, mover, idle, ends,
                 opening, nmoves>>

\* Lines 394-412: the pass over self._board.
Commit ==
  /\ line = 390
  /\ board' = Explode(board, dst[1], dst[2])
  /\ line' = 412
  /\ UNCHANGED <<turn, game_state, ret, malformed, src, dst, capture, mover,
                 idle, ends, opening, nmoves>>

\* Line 413: check_king on self._board.
LiveKing ==
  /\ line = 412
  /\ game_state' = check_king(board, game_state).game_state
  /\ line' = 413
  /\ UNCHANGED <<board, turn, ret, malformed, src, dst, capture, mover, idle,
                 ends, opening, nmoves>>

\* Lines 89-97 after atomic_landing has returned True.
Return ==
  /\ line = 413
  /\ board' = Clear(board, src[1], src[2])
  /\ turn' = Flip(turn)
  /\ mover' = (IF turn = "WHITE" THEN "W" ELSE "B")
  /\ ret' = "True"
  /\ line' = 97
  /\ UNCHANGED <<game_state, malformed, src, dst, capture, idle, ends, opening,
                 nmoves>>

NextResolve == StartCall \/ TrialKing \/ Commit \/ LiveKing \/ Return

SpecResolve == Init /\ [][NextResolve]_vars

\* ------------------------------------------- the queen's rule, on its own
\* validate_queen asked, on the board of a state from which calls are made,
\* about any two distinct cells: ret is its verdict, line the line of its
\* def, src and dst the two cells.  It writes nothing, so the state it
\* leaves is not followed further.
AskQueen ==
  /\ nmoves < Depth(opening)
  /\ ~idle
  /\ \E from \in Idx \X Idx, to \in Idx \X Idx :
       /\ from # to
       /\ ret' = validate_queen(board, from[1], from[2], to[1], to[2])
       /\ line' = 281
       /\ src' = from
       /\ dst' = to
  /\ malformed' = FALSE
  /\ capture' = FALSE
  /\ idle' = TRUE
  /\ ends' = NoSquare
  /\ UNCHANGED <<board, turn, game_state, mover, opening, nmoves>>

NextQueen == MakeMove \/ AskQueen

SpecQueen == Init /\ [][NextQueen]_vars

\* ----------------------------------------------------------------- claims
Cells == Idx \X Idx

Colour(t) == IF t = "WHITE" THEN "W" ELSE "B"

IsPawn(cell) == cell = WP \/ cell = BP

HasWK(b) == \E sq \in Cells : b[sq[1]][sq[2]] = WK

HasBK(b) == \E sq \in Cells : b[sq[1]][sq[2]] = BK

\* The 3x3 block centred on a square, cut at the edges of the board.
Block(l) == {sq \in Cells : abs(sq[1] - l[1]) <= 1 /\ abs(sq[2] - l[2]) <= 1}

\* C1: a capture that passed the validator and whose explosion leaves no
\* king returns False and leaves every square of the board as it was.
C1_DoubleKillLeavesBoard ==
  [][(capture' /\ ~HasWK(Explode(board, dst'[1], dst'[2]))
               /\ ~HasBK(Explode(board, dst'[1], dst'[2])))
     => (ret' = "False" /\ board' = board)]_vars

\* C2: the live board never holds no king at all.
C2_SomeKing == HasWK(board) \/ HasBK(board)

\* C3: in a finished game every call returns False and changes nothing.
C3_FinishedIsAbsorbing ==
  [][game_state # "UNFINISHED"
     => (ret' = "False" /\ board' = board /\ turn' = turn
         /\ game_state' = game_state)]_vars

\* A call was made in a finished game and turned away at line 54.
C3_Witness == game_state # "UNFINISHED" /\ ret = "False" /\ line = 54

\* C4: after a successful capture, one king left means that king's side has
\* won, whoever captured, and two kings left mean the game is unfinished.
C4_WinnerIsSurvivor ==
  (ret = "True" /\ capture)
    => /\ (HasWK(board) /\ ~HasBK(board)) => game_state = "WHITE_WON"
       /\ (HasBK(board) /\ ~HasWK(board)) => game_state = "BLACK_WON"
       /\ (HasWK(board) /\ HasBK(board)) => game_state = "UNFINISHED"

\* White captured and blew up its own king only: Black has won.
C4_Witness ==
  /\ ret = "True" /\ capture /\ mover = "W"
  /\ HasBK(board) /\ ~HasWK(board) /\ game_state = "BLACK_WON"

\* C5: a call that returns True flips the turn, and the piece it moved is of
\* the side that was to move and of the other colour than the piece moved by
\* the accepted call before it; the first mover is White.
C5_TurnsAlternate ==
  [][ret' = "True"
     => (turn' # turn /\ mover' = Colour(turn) /\ mover' # mover)]_vars

\* Two accepted calls in a row from __init__: White's, then Black's.
C5_Witness == ret = "True" /\ mover = "B" /\ turn = "WHITE" /\ nmoves = 2

\* C6: a call that returns False leaves turn and game_state as they were.
C6_RejectionKeepsTurnAndState ==
  [][ret' = "False" => (turn' = turn /\ game_state' = game_state)]_vars

\* A capture was turned away at line 85 because no king would be left.
C6_Witness == ret = "False" /\ line = 85 /\ game_state = "UNFINISHED"

\* The cells strictly between two cells of one row, column or diagonal.
OnLine(from, to) ==
  /\ from # to
  /\ \/ from[1] = to[1]
     \/ from[2] = to[2]
     \/ abs(from[1] - to[1]) = abs(from[2] - to[2])

Sign(x) == IF x > 0 THEN 1 ELSE IF x < 0 THEN 0 - 1 ELSE 0

Between(from, to) ==
  LET n == IF abs(from[1] - to[1]) > abs(from[2] - to[2])
           THEN abs(from[1] - to[1]) ELSE abs(from[2] - to[2])
  IN {<<from[1] + k * Sign(to[1] - from[1]), from[2] + k * Sign(to[2] - from[2])>> :
        k \in 1 .. (n - 1)}

\* The cells holding a piece of the side to move whose kind letter is in kinds.
Own(kinds) ==
  {sq \in Cells : /\ board[sq[1]][sq[2]][1] = Colour(turn)
                  /\ board[sq[1]][sq[2]][2] \in kinds}

\* C7: a rook, bishop or queen of the side to move never gets past an
\* occupied square of its line: the call returns False, board unchanged.
C7_BlockedSliderRejected ==
  \A from \in Own({"R", "I", "Q"}) : \A to \in Cells :
    (OnLine(from, to) /\ \E sq \in Between(from, to) : board[sq[1]][sq[2]] # Empty)
      => \E r \in {make_move(board, turn, game_state,
                             Square(from[1], from[2]), Square(to[1], to[2]))} :
           r.ret = "False" /\ r.board = board

\* C8, as stated: after a successful capture every pawn of the 3x3 block
\* around the landing square is where it was, every other piece of the block
\* is gone, and so is the capturing piece.
C8_BlockAsStated ==
  [][(ret' = "True" /\ capture')
     => /\ \A sq \in Block(dst') :
             /\ IsPawn(board[sq[1]][sq[2]])
                  => board'[sq[1]][sq[2]] = board[sq[1]][sq[2]]
             /\ ~IsPawn(board[sq[1]][sq[2]]) => board'[sq[1]][sq[2]] = Empty
        /\ board'[src'[1]][src'[2]] = Empty]_vars

\* C8, amended: the same for the squares of the block other than the landing
\* square and the origin of the capturing piece; those two are empty,
\* whatever stood on them.
C8_BlockAmended ==
  [][(ret' = "True" /\ capture')
     => /\ \A sq \in Block(dst') \ {dst', src'} :
             /\ IsPawn(board[sq[1]][sq[2]])
                  => board'[sq[1]][sq[2]] = board[sq[1]][sq[2]]
             /\ ~IsPawn(board[sq[1]][sq[2]]) => board'[sq[1]][sq[2]] = Empty
        /\ board'[dst'[1]][dst'[2]] = Empty
        /\ board'[src'[1]][src'[2]] = Empty]_vars

\* A successful capture with a pawn still standing in the blast.
C8_Witness ==
  /\ ret = "True" /\ capture
  /\ \E sq \in Block(dst) \ {dst, src} : IsPawn(board[sq[1]][sq[2]])

\* C9: a call with a malformed or out-of-range token returns False, raises
\* nothing and changes nothing.
C9_MalformedReturnsFalse == malformed => (ret = "False" /\ idle)

\* C10: for a knight of the side to move and a destination not held by a
\* friendly piece, the validator's verdict is true exactly when the offsets
\* are (1,2) or (2,1), whatever the other squares hold.
C10_KnightOffsets ==
  \A from \in Own({"N"}) : \A to \in Cells :
    board[to[1]][to[2]][1] # Colour(turn)
      => ((validate_move(board, turn, board[from[1]][from[2]], from[1], from[2],
                         board[to[1]][to[2]], to[1], to[2]) = "True")
          <=> (<<abs(from[1] - to[1]), abs(from[2] - to[2])>> \in {<<1, 2>>, <<2, 1>>}))

\* A knight has just been moved onto an empty square.
C10_Witness ==
  /\ ret = "True" /\ ~capture /\ dst # NoSquare
  /\ board[dst[1]][dst[2]][2] = "N"

\* The validator's verdict on moving the piece on from to the cell to.
Verdict(from, to) ==
  validate_move(board, turn, board[from[1]][from[2]], from[1], from[2],
                board[to[1]][to[2]], to[1], to[2])

\* The column step that is forward for the side to move, and its home column.
Forward(t) == IF t = "WHITE" THEN 1 ELSE 0 - 1

Home(t) == IF t = "WHITE" THEN 1 ELSE 6

\* Whether a cell holds a piece of the side that is not to move.
Opposing(cell) == cell # Empty /\ cell[1] # Colour(turn)

\* C11: for a pawn of the side to move the validator's verdict is true
\* exactly when the move is (a) one step forward in its row onto an empty
\* cell, (b) two steps forward in its row from the home column onto an empty
\* cell, whatever stands in between, or (c) one step forward and one row
\* aside onto an opposing piece.
C11_PawnRule ==
  \A from \in Own({"P"}) : \A to \in Cells :
    (Verdict(from, to) = "True")
      <=> \/ /\ to[1] = from[1]
             /\ to[2] = from[2] + Forward(turn)
             /\ board[to[1]][to[2]] = Empty
          \/ /\ to[1] = from[1]
             /\ from[2] = Home(turn)
             /\ to[2] = from[2] + 2 * Forward(turn)
             /\ board[to[1]][to[2]] = Empty
          \/ /\ abs(to[1] - from[1]) = 1
             /\ to[2] = from[2] + Forward(turn)
             /\ Opposing(board[to[1]][to[2]])

\* After a move a pawn of the side to move stands on its home column with a
\* piece right in front of it, and its double step over that piece is
\* accepted; another pawn has an opposing piece one step forward and aside.
C11_Witness ==
  /\ nmoves > 0
  /\ \E from \in Own({"P"}) :
       /\ from[2] = Home(turn)
       /\ board[from[1]][from[2] + Forward(turn)] # Empty
       /\ Verdict(from, <<from[1], from[2] + 2 * Forward(turn)>>) = "True"
  /\ \E from \in Own({"P"}) : \E to \in Cells :
       /\ abs(to[1] - from[1]) = 1
       /\ Opposing(board[to[1]][to[2]])
       /\ Verdict(from, to) = "True"

\* C12: for a king of the side to move the validator's verdict is true
\* exactly when neither index changes by more than 1, one of them changes,
\* and the destination is empty; and a call moving that king onto an
\* occupied square leaves at line 99, before atomic_landing, so that no
\* capture is initiated by a king.
C12_KingRule ==
  \A from \in Own({"K"}) : \A to \in Cells :
    /\ (Verdict(from, to) = "True")
         <=> /\ abs(from[1] - to[1]) <= 1
             /\ abs(from[2] - to[2]) <= 1
             /\ from # to
             /\ board[to[1]][to[2]] = Empty
    /\ (game_state = "UNFINISHED" /\ board[to[1]][to[2]] # Empty)
         => \E r \in {make_move(board, turn, game_state,
                                Square(from[1], from[2]), Square(to[1], to[2]))} :
              r.ret = "False" /\ r.line = 99 /\ r.board = board

\* A king has just stepped onto an empty square, and the king of the side
\* now to move stands next to an opposing piece.
C12_Witness ==
  /\ ret = "True" /\ ~capture /\ dst # NoSquare
  /\ board[dst[1]][dst[2]][2] = "K"
  /\ \E from \in Own({"K"}) : \E to \in Block(from) :
       Opposing(board[to[1]][to[2]])

\* Whether a step left the three fields of the object as they were.
Untouched == board' = board /\ turn' = turn /\ game_state' = game_state

\* C13: a call whose origin square holds a piece of the side that is not to
\* move returns False and changes nothing, whatever its destination square.
C13_WrongSideRejected ==
  [][(ends' # NoSquare /\ ends'[1] # "0" /\ ends'[1] # Colour(turn))
     => (ret' = "False" /\ Untouched)]_vars

\* Such a call was made in an unfinished game, towards an empty square, and
\* turned away by the validator.
C13_Witness ==
  /\ ret = "False" /\ line = 99 /\ ends # NoSquare
  /\ ends[1] # "0" /\ ends[1] # Colour(turn) /\ ends[2] = "0"

\* C14: a call whose destination square holds a piece of the colour of the
\* piece on its origin square returns False and changes nothing: no piece
\* lands on a piece of its own side.
C14_FriendlyCaptureRejected ==
  [][(ends' # NoSquare /\ ends'[1] # "0" /\ ends'[2] = ends'[1])
     => (ret' = "False" /\ Untouched)]_vars

\* A piece of the side to move was sent onto another square held by its own
\* side, and the call was turned away by the validator.
C14_Witness ==
  /\ ret = "False" /\ line = 99 /\ ends # NoSquare
  /\ ends[1] = Colour(turn) /\ ends[2] = ends[1] /\ ~ends[3]

\* C15: a call whose origin square is empty, or is its destination square,
\* returns False and changes nothing.
C15_EmptyOrNullRejected ==
  [][(ends' # NoSquare /\ (ends'[1] = "0" \/ ends'[3]))
     => (ret' = "False" /\ Untouched)]_vars

\* A call from an empty square towards an occupied one was turned away by
\* the validator.
C15_Witness ==
  /\ ret = "False" /\ line = 99 /\ ends # NoSquare
  /\ ends[1] = "0" /\ ends[2] # "0"

\* C16: a call that returns True without a capture found its destination
\* empty, leaves the moved piece there and the origin empty, every other
\* square and game_state as they were, and the turn with the other side;
\* and from the board of __init__ the call ('a2', 'a4') is such a call,
\* leaving the pawn on a4, a2 empty and Black to move.
C16_PlainMoveFrame ==
  [][/\ (ret' = "True" /\ ~capture')
          => /\ src' # dst'
             /\ board[src'[1]][src'[2]] # Empty
             /\ board[dst'[1]][dst'[2]] = Empty
             /\ \A sq \in Cells :
                  board'[sq[1]][sq[2]] =
                    IF sq = dst' THEN board[src'[1]][src'[2]]
                    ELSE IF sq = src' THEN Empty
                    ELSE board[sq[1]][sq[2]]
             /\ game_state' = game_state
             /\ turn' # turn /\ turn' \in {"WHITE", "BLACK"}
     /\ (board = InitBoard /\ turn = "WHITE" /\ game_state = "UNFINISHED")
          => \E r \in {make_move(board, turn, game_state, Square(0, 1), Square(0, 3))} :
               /\ r.ret = "True"
               /\ r.board[0][3] = WP /\ r.board[0][1] = Empty
               /\ r.turn = "BLACK"]_vars

\* The first call of a game was ('a2', 'a4').
C16_Witness ==
  /\ opening = <<>> /\ nmoves = 1
  /\ ret = "True" /\ ~capture /\ src = <<0, 1>> /\ dst = <<0, 3>>
  /\ board[0][3] = WP /\ board[0][1] = Empty /\ turn = "BLACK"

\* C17: a call that returns True after a capture leaves the landing square
\* and the origin empty, every other square of the 3x3 block around the
\* landing square empty unless it held a pawn, and every other square of the
\* board, the far edge of a row or column included, as it was.
C17_CaptureFrame ==
  [][(ret' = "True" /\ capture')
     => \A sq \in Cells :
          board'[sq[1]][sq[2]] =
            IF sq = dst' \/ sq = src' THEN Empty
            ELSE IF sq \in Block(dst') /\ ~IsPawn(board[sq[1]][sq[2]]) THEN Empty
            ELSE board[sq[1]][sq[2]]]_vars

\* A capture landed on the first column: pawns of the block still stand,
\* and so do the pieces at the other end of the rows of the block.
C17_Witness ==
  /\ ret = "True" /\ capture /\ nmoves > 0
  /\ dst[2] = 0
  /\ \E sq \in Block(dst) \ {dst, src} : IsPawn(board[sq[1]][sq[2]])
  /\ \E sq \in Block(dst) : board[sq[1]][7] # Empty /\ <<sq[1], 7>> # src

\* C18: inside a capture, neither the trial pass followed by the evaluation
\* of the trial board nor the pass over the live board writes game_state; it
\* keeps the value it had before the call until the evaluation of the live
\* board (line 413).
C18_TrialNeverWritesGameState ==
  [][(line = 389 \/ line = 390) => game_state' = game_state]_vars

\* C19: a call turned away by the validator (line 99) leaves the board, the
\* turn and game_state as they were.
C19_ValidatorRejectionWritesNothing ==
  [][line' = 99 => (ret' = "False" /\ Untouched)]_vars

\* A piece of the side to move was sent to an empty square it may not reach.
C19_Witness ==
  /\ ret = "False" /\ line = 99 /\ idle /\ ends # NoSquare
  /\ ends[1] = Colour(turn) /\ ends[2] = "0"

\* The cells holding a bishop of either side.
Bishops == {sq \in Cells : board[sq[1]][sq[2]][2] = "I"}

\* C20: validate_bishop, asked about a bishop on the board and another cell,
\* answers True exactly when the two index deltas are equal in size and
\* every cell strictly between the two is empty; what the destination holds
\* does not matter.
C20_BishopRule ==
  \A from \in Bishops : \A to \in Cells \ {from} :
    (validate_bishop(board, from[1], from[2], to[1], to[2]) = "True")
      <=> /\ abs(from[1] - to[1]) = abs(from[2] - to[2])
          /\ \A sq \in Between(from, to) : board[sq[1]][sq[2]] = Empty

\* A bishop has just moved two or more cells along a diagonal.
C20_Witness ==
  /\ ret = "True" /\ dst # NoSquare /\ ~capture
  /\ board[dst[1]][dst[2]][2] = "I"
  /\ abs(dst[1] - src[1]) >= 2

\* C21: on every board and for every two distinct cells, validate_queen
\* answers True exactly when validate_rook or validate_bishop answers True
\* for the same board and cells.
C21_QueenIsRookOrBishop ==
  line = 281
    => ((ret = "True")
        <=> \/ validate_rook(board, src[1], src[2], dst[1], dst[2]) = "True"
            \/ validate_bishop(board, src[1], src[2], dst[1], dst[2]) = "True")

\* The queen's rule and the rook's both said True to a move along a row
\* towards a lower column over an occupied cell, on a board reached by a
\* call.
C21_Witness ==
  /\ line = 281 /\ ret = "True" /\ nmoves > 0
  /\ src[1] = dst[1] /\ dst[2] < src[2]
  /\ \E sq \in Between(src, dst) : board[sq[1]][sq[2]] # Empty
  /\ validate_rook(board, src[1], src[2], dst[1], dst[2]) = "True"

\* What game_state says of the kings on a board: a Won value means the
\* winner's king is there and the loser's is not, and a single king means
\* its side's Won value.
KingsMatch(b, g) ==
  \E w \in {HasWK(b)}, k \in {HasBK(b)} :
    /\ g = "WHITE_WON" => (w /\ ~k)
    /\ g = "BLACK_WON" => (k /\ ~w)
    /\ (w /\ ~k) => g = "WHITE_WON"
    /\ (k /\ ~w) => g = "BLACK_WON"

\* C22: game_state and the kings on the board agree before the first call
\* and after every call that changes either, and game_state changes only in
\* a call that returns True after a capture, never in a plain move or a
\* rejected call.
C22_GameStateFollowsKings ==
  [][/\ line = 0 => KingsMatch(board, game_state)
     /\ (board' # board \/ game_state' # game_state)
          => KingsMatch(board', game_state')
     /\ game_state' # game_state => (ret' = "True" /\ capture')]_vars

\* A capture by a call has just left the white king alone on the board.
C22_Witness ==
  /\ nmoves > 0 /\ ret = "True" /\ capture
  /\ HasWK(board) /\ ~HasBK(board) /\ game_state = "WHITE_WON"

\* The twelve values of a cell that holds a piece.
Pieces == {WR, WN, WI, WQ, WK, WP, BR, BN, BI, BQ, BK, BP}

\* How many cells of a board hold a given piece, and how many hold any.
Count(b, p) == Cardinality({sq \in Cells : b[sq[1]][sq[2]] = p})

Total(b) == Cardinality({sq \in Cells : b[sq[1]][sq[2]] # Empty})

AtMostOneKingEach(b) == Count(b, WK) <= 1 /\ Count(b, BK) <= 1

\* C23: no call adds a piece of any colour and kind to the board, a call
\* returning True after a plain move leaves as many of each as there were,
\* one returning True after a capture leaves at least two pieces fewer, and
\* no board, before the first call or after any call, holds two kings of
\* one side.
C23_PiecesOnlyLeave ==
  [][/\ line = 0 => AtMostOneKingEach(board)
     /\ board' # board
          => /\ \A sq \in Cells : board'[sq[1]][sq[2]] \in Pieces \cup {Empty}
             /\ \A p \in Pieces : Count(board', p) <= Count(board, p)
             /\ AtMostOneKingEach(board')
     /\ (ret' = "True" /\ ~capture')
          => \A p \in Pieces : Count(board', p) = Count(board, p)
     /\ (ret' = "True" /\ capture')
          => Total(board') + 2 <= Total(board)]_vars

\* A capture by a call has just removed more than the two pieces that met,
\* and each side still has its king.
C23_Witness ==
  /\ nmoves > 0 /\ ret = "True" /\ capture
  /\ Total(board) < 30
  /\ Count(board, WK) = 1 /\ Count(board, BK) = 1

====
